---- MODULE Spec2Model ----
(***************************************************************************)
(* A model of the structured logger: the Logger facade that fans an event  *)
(* out to its transports, the LokiTransport batching queue with its timer, *)
(* size threshold, retry-with-backoff delivery and flush(), and the pure   *)
(* Loki payload formatter.                                                 *)
(*                                                                         *)
(* JavaScript runs handlers to completion: one action of the model is one  *)
(* synchronous segment (a call up to its first real suspension, a timer    *)
(* callback, the continuation after a settled fetch or sleep).  A          *)
(* continuation waiting on an already settled promise is a microtask: it   *)
(* runs before any timer or network callback, but after the synchronous    *)
(* code of the caller, which may log or flush again.                       *)
(***************************************************************************)
EXTENDS Integers, Sequences, FiniteSets, TLC

\* ---------------------------------------------------------------- bounds
MaxEvents == 3        \* level-method calls in one behaviour
MaxTs == 2            \* distinct clock readings (milliseconds)
MaxRetries == 2       \* largest configured retries of the full system
MaxBatchSize == 3     \* largest configured batchSize
MaxFlush == 2         \* flush() calls in one behaviour
MaxRunRetries == 4    \* largest configured retries of a single send
MaxFmtLen == 3        \* longest entry list given to the formatter

\* ------------------------------------------------------- program constants
BaseDelay == 1000
NsPerMs == 1000000
DefaultTimeout == 30000

\* An object is the sequence of its <<key, value>> pairs in insertion order,
\* which is what JSON.stringify walks.  NoMetadata is `undefined`.
NoMetadata == <<>>

\* The level does not influence batching or delivery; the formatter
\* specification varies it.
SinkLevels == {"info"}
Service == "svc"
RetriesRange == -1 .. MaxRetries
BatchSizeRange == 1 .. MaxBatchSize
StaticLabels == << <<"environment", "prod">> >>

VARIABLES
  cfg,          \* LokiTransport readonly config: batchSize, retries, timeout
  batch,        \* LokiTransport.batch
  batchTimer,   \* TRUE while the setInterval handle is armed
  isFlushing,   \* LokiTransport.isFlushing
  sends,        \* every sendBatch run that took a batch, in the order taken
  flushes,      \* flush() calls suspended at `await this.sendBatch()`
  flushCalls,   \* number of flush() calls made so far
  logged,       \* number of level-method calls made so far
  recv,         \* per transport: ids of the entries its log() was called with
  reported,     \* transports whose failure was reported by "Transport error:"
  raised,       \* an exception escaped a level method to the caller
  unhandled,    \* a promise rejected with no handler attached
  fmtIn,        \* pure-function specifications: the arguments given
  fmtOut,       \* pure-function specifications: the result, <<>> before the call
  writes,       \* per FileTransport.log call, in call order: state of its write
  file,         \* ids of the lines the file holds, in the order written
  loggerFlushes,\* per Logger.flush call: its sink flushes and its own promise
  microtasks    \* file specification: the microtask queue, oldest first

sinkVars == <<cfg, batch, batchTimer, isFlushing, sends, flushes, flushCalls,
              logged, recv, reported, raised, unhandled>>
fmtVars == <<fmtIn, fmtOut>>
fileVars == <<writes, file, loggerFlushes, microtasks>>
vars == <<sinkVars, fmtVars, fileVars>>

\* ------------------------------------------------------------- objects
\* { ...a, ...b }: a key of b already in a keeps a's position and takes b's
\* value; a new key is appended.
RECURSIVE Spread(_, _)
Spread(a, b) ==
  IF b = <<>> THEN a
  ELSE LET kv == Head(b)
           hit == {i \in 1..Len(a) : a[i][1] = kv[1]}
       IN IF hit = {}
            THEN Spread(Append(a, kv), Tail(b))
            ELSE Spread([i \in 1..Len(a) |-> IF i \in hit THEN kv ELSE a[i]],
                        Tail(b))

HasKey(obj, k) == \E i \in 1..Len(obj) : obj[i][1] = k
Get(obj, k) == obj[CHOOSE i \in 1..Len(obj) : obj[i][1] = k][2]

\* JSON.stringify(obj) of an object whose values are strings and numbers, as
\* the sequence of its tokens: the members in insertion order, strings in
\* their quotes.
RECURSIVE JSONMembers(_, _)
JSONMembers(obj, i) ==
  IF i > Len(obj) THEN <<>>
  ELSE (IF i = 1 THEN <<>> ELSE <<",">>)
       \o <<ToString(obj[i][1]), ":", ToString(obj[i][2])>>
       \o JSONMembers(obj, i + 1)
JSONStringify(obj) == <<"{">> \o JSONMembers(obj, 1) \o <<"}">>

\* ------------------------------------------------------------ timestamps
toNanoseconds(ms) == ms * NsPerMs

\* ------------------------------------------------------------- formatter
\* The label object built for one entry; an absent or falsy (empty) event
\* adds no label.
EntryLabels(entry, staticLabels) ==
  LET event == IF HasKey(entry.metadata, "event")
                 THEN Get(entry.metadata, "event") ELSE ""
      base == << <<"service", entry.service>>, <<"level", entry.level>> >>
      withEvent == IF event # "" THEN Spread(base, << <<"event", event>> >>)
                   ELSE base
  IN Spread(withEvent, staticLabels)

\* A grouping loop whose lookup never finds the existing group.
StreamMapNoLookup(entries, staticLabels, map) ==
  map \o [i \in 1..Len(entries) |->
           [key |-> EntryLabels(entries[i], staticLabels),
            group |-> <<entries[i]>>]]

\* streamMap after the grouping loop: a Map keeps its keys in insertion
\* order; the key is the JSON text of the label object, which for string
\* values is given by the ordered <<key, value>> pairs.
RECURSIVE StreamMap(_, _, _)
StreamMap(entries, staticLabels, map) ==
  IF entries = <<>> THEN map
  ELSE LET entry == Head(entries)
           labelKey == EntryLabels(entry, staticLabels)
           hit == {i \in 1..Len(map) : map[i].key = labelKey}
       IN IF hit = {}
            THEN StreamMap(Tail(entries), staticLabels,
                           Append(map, [key |-> labelKey, group |-> <<entry>>]))
            ELSE StreamMap(Tail(entries), staticLabels,
                           [i \in 1..Len(map) |->
                              IF i \in hit
                                THEN [map[i] EXCEPT !.group = Append(@, entry)]
                                ELSE map[i]])

LogLine(entry) == Spread(<< <<"message", entry.message>> >>, entry.metadata)

formatLokiPayload(entries, staticLabels) ==
  LET map == StreamMap(entries, staticLabels, <<>>)
  IN [i \in 1..Len(map) |->
        [stream |-> map[i].key,
         values |-> [j \in 1..Len(map[i].group) |->
                       <<toNanoseconds(map[i].group[j].timestamp),
                         JSONStringify(LogLine(map[i].group[j]))>>]]]

\* ------------------------------------------------------------------ sort
\* An insertion that puts an element before its equals (an unstable sort).
InsertSortedUnstable(e, s) ==
  LET before == SelectSeq(s, LAMBDA x : x.timestamp < e.timestamp)
      after == SelectSeq(s, LAMBDA x : x.timestamp >= e.timestamp)
  IN before \o <<e>> \o after

\* entries.sort(cmp): Array.prototype.sort is stable; an element goes after
\* every element that does not compare greater than it.
Compare(a, b) == a.timestamp - b.timestamp

RECURSIVE InsertSorted(_, _)
InsertSorted(e, s) ==
  IF s = <<>> THEN <<e>>
  ELSE IF Compare(Head(s), e) > 0 THEN <<e>> \o s
  ELSE <<Head(s)>> \o InsertSorted(e, Tail(s))

RECURSIVE SortEntries(_)
SortEntries(s) ==
  IF s = <<>> THEN <<>>
  ELSE InsertSorted(s[Len(s)], SortEntries(SubSeq(s, 1, Len(s) - 1)))

\* ----------------------------------------------------------------- retry
\* retryWithBackoff entered: the loop runs fn() at once when 0 <= retries;
\* otherwise it falls through to `throw lastError`.
RetryStart(retries) ==
  IF 0 <= retries
    THEN [attempt |-> 1, phase |-> "fetch", delays |-> <<>>]
    ELSE [attempt |-> 0, phase |-> "threw", delays |-> <<>>]

\* A loop that gives up one attempt early.
RetryOnFailureEarly(s, retries, baseDelay) ==
  IF s.attempt >= retries
    THEN [s EXCEPT !.phase = "threw"]
    ELSE [s EXCEPT !.phase = "sleep",
                   !.delays = Append(@, baseDelay * 2 ^ (s.attempt - 1))]

\* A backoff based on the per-request timeout instead of the base delay.
RetryOnFailureTimeoutBase(s, retries, baseDelay) ==
  IF s.attempt - 1 = retries
    THEN [s EXCEPT !.phase = "threw"]
    ELSE [s EXCEPT !.phase = "sleep",
                   !.delays = Append(@, cfg.timeout * 2 ^ (s.attempt - 1))]

\* A loop that makes one attempt more than retries + 1.
RetryOnFailureExtra(s, retries, baseDelay) ==
  IF s.attempt - 1 = retries + 1
    THEN [s EXCEPT !.phase = "threw"]
    ELSE [s EXCEPT !.phase = "sleep",
                   !.delays = Append(@, baseDelay * 2 ^ (s.attempt - 1))]

\* fn() rejected on the attempt with loop index s.attempt - 1: break and
\* throw after the last attempt, otherwise sleep baseDelay * 2^index.
RetryOnFailure(s, retries, baseDelay) ==
  IF s.attempt - 1 = retries
    THEN [s EXCEPT !.phase = "threw"]
    ELSE [s EXCEPT !.phase = "sleep",
                   !.delays = Append(@, baseDelay * 2 ^ (s.attempt - 1))]

\* ------------------------------------------------------- LokiTransport
\* The try/catch of sendBatch around retryWithBackoff: a throw of the retry
\* loop is reported and the batch dropped; sendBatch itself completes.
SendBatchCatch(s) ==
  IF s.phase = "threw" THEN [s EXCEPT !.phase = "dropped"] ELSE s

\* The batch as sendBatch hands it on: sorted copy and payload.
TakeBatch(b, staticLabels) ==
  LET entries == SortEntries(b)
  IN [entries |-> entries, payload |-> formatLokiPayload(entries, staticLabels)]

\* A sendBatch that takes its snapshot and leaves the buffer as it was.
SendBatchKeepsBuffer(b, flushing, ss, trigger) ==
  IF Len(b) = 0 \/ flushing
    THEN [batch |-> b, sends |-> ss]
    ELSE [batch |-> b,
          sends |-> Append(ss, [entries |-> SortEntries(b),
                                payload |-> <<>>,
                                trigger |-> trigger,
                                attempt |-> 1,
                                phase |-> "fetch",
                                delays |-> <<>>,
                                accepted |-> 0,
                                outcomes |-> <<>>])]

\* sendBatch() up to its first suspension: the state of batch and sends
\* after the call.
SendBatch(b, flushing, ss, trigger) ==
  IF Len(b) = 0 \/ flushing
    THEN [batch |-> b, sends |-> ss]
    ELSE LET taken == TakeBatch(b, StaticLabels)
             run == SendBatchCatch(RetryStart(cfg.retries))
         IN [batch |-> <<>>,
             sends |-> Append(ss, [entries |-> taken.entries,
                                   payload |-> taken.payload,
                                   trigger |-> trigger,
                                   attempt |-> run.attempt,
                                   phase |-> run.phase,
                                   delays |-> run.delays,
                                   accepted |-> 0,
                                   outcomes |-> <<>>])]

\* log() that sends only once the buffer exceeds batchSize.
LokiLogAbove(b, flushing, ss, entry) ==
  LET pushed == Append(b, entry)
  IN IF Len(pushed) > cfg.batchSize
       THEN SendBatch(pushed, flushing, ss, "log")
       ELSE [batch |-> pushed, sends |-> ss]

\* LokiTransport.log(entry)
LokiLog(b, flushing, ss, entry) ==
  LET pushed == Append(b, entry)
  IN IF Len(pushed) >= cfg.batchSize
       THEN SendBatch(pushed, flushing, ss, "log")
       ELSE [batch |-> pushed, sends |-> ss]

\* flush() that leaves the interval armed.
StopTimerKeepsInterval(timer) == timer

\* clearInterval(this.batchTimer); this.batchTimer = undefined
StopTimer(timer) == FALSE

\* --------------------------------------------------------------- Logger
Transports == <<"console", "file", "loki">>

\* Logger.createEntry
createEntry(service, id, now, level, message, metadata) ==
  [id |-> id, timestamp |-> now, level |-> level, service |-> service,
   message |-> message, metadata |-> metadata]

\* The state and result of a call of LokiTransport.log that left the
\* buffer and the sends as r says.
LokiCalled(called, r) ==
  [st |-> [called EXCEPT !.batch = r.batch, !.sends = r.sends],
   result |-> "void"]

\* transport.log(entry) for one transport: what the call does and how it
\* ends: "void", "throw", or a returned promise, "resolved" or "rejected"
\* (an async log() that fails before its first await returns a promise that
\* is already rejected).
TransportLog(st, t, entry, out) ==
  IF t = "loki"
    THEN LokiCalled([st EXCEPT !.recv[t] = Append(@, entry.id)],
                    LokiLog(st.batch, isFlushing, st.sends, entry))
    ELSE [st |-> [st EXCEPT !.recv[t] = Append(@, entry.id)],
          result |-> out[t]]

\* A loop body without try/catch: a synchronous throw propagates.
HandleNoTry(c, t) ==
  CASE c.result = "throw" -> [c.st EXCEPT !.thrown = TRUE]
    [] c.result = "rejected" -> [c.st EXCEPT !.reported = @ \cup {t}]
    [] OTHER -> c.st

\* A loop body that attaches no handler to a returned promise.
HandleNoRejectionHandler(c, t) ==
  CASE c.result = "throw" -> [c.st EXCEPT !.reported = @ \cup {t}]
    [] c.result = "rejected" -> [c.st EXCEPT !.unhandled = TRUE]
    [] OTHER -> c.st

\* What the loop body does with the outcome c of transport.log(entry): the
\* catch block around the call, and the rejection handler attached to a
\* returned promise; both report to console.error.
Handle(c, t) ==
  CASE c.result = "throw" -> [c.st EXCEPT !.reported = @ \cup {t}]
    [] c.result = "rejected" -> [c.st EXCEPT !.reported = @ \cup {t}]
    [] OTHER -> c.st

\* The body of the dispatch loop for one transport.
DispatchOne(st, t, entry, out) == Handle(TransportLog(st, t, entry, out), t)

\* for (const transport of this.transports): a statement runs only while no
\* exception is propagating.
RECURSIVE Dispatch(_, _, _, _)
Dispatch(st, ts, entry, out) ==
  IF ts = <<>> \/ st.thrown THEN st
  ELSE Dispatch(DispatchOne(st, Head(ts), entry, out), Tail(ts), entry, out)

ConsoleOutcomes == {"void", "throw"}
FileOutcomes == {"resolved", "rejected"}

\* ---------------------------------------------------------- the system
InitSink(configs) ==
  /\ cfg \in configs
  /\ batch = <<>>
  /\ batchTimer = TRUE
  /\ isFlushing = FALSE
  /\ sends = <<>>
  /\ flushes = <<>>
  /\ flushCalls = 0
  /\ logged = 0
  /\ recv = [t \in {"console", "file", "loki"} |-> <<>>]
  /\ reported = {}
  /\ raised = FALSE
  /\ unhandled = FALSE
  /\ writes = <<>>
  /\ file = <<>>
  /\ loggerFlushes = <<>>
  /\ microtasks = <<>>

Init ==
  /\ InitSink([batchSize : BatchSizeRange, retries : RetriesRange,
               timeout : {DefaultTimeout}])
  /\ fmtIn = <<>>
  /\ fmtOut = <<>>

\* Logger.log as the console and remote sinks and the reporting channel see
\* it.  The write the file transport queues is followed in SpecFile.
LogDispatch(level, now, out) ==
  /\ logged < MaxEvents
  /\ \E st \in {Dispatch([batch |-> batch, sends |-> sends, recv |-> recv,
                           reported |-> reported, thrown |-> FALSE,
                           unhandled |-> FALSE],
                          Transports,
                          createEntry(Service, logged + 1, now, level, "m",
                                      NoMetadata),
                          out)} :
       /\ batch' = st.batch
       /\ sends' = st.sends
       /\ recv' = st.recv
       /\ reported' = st.reported
       /\ raised' = (raised \/ st.thrown)
       /\ unhandled' = (unhandled \/ st.unhandled)
  /\ logged' = logged + 1
  /\ flushes' = [i \in 1..Len(flushes) |->
                   [flushes[i] EXCEPT !.loggedSince = TRUE]]
  /\ UNCHANGED <<cfg, batchTimer, isFlushing, flushCalls, fmtVars>>

\* logger.debug/info/warn/error(message, metadata): Logger.log
LevelMethod(level, now, out) ==
  /\ LogDispatch(level, now, out)
  /\ UNCHANGED fileVars

\* A timer whose callback never sends.
TimerTickIdle ==
  /\ batchTimer
  /\ flushes = <<>>
  /\ UNCHANGED vars

\* The setInterval callback of startBatchTimer.  Timer and network
\* callbacks run only when no microtask (a suspended flush) is pending.
TimerTick ==
  /\ batchTimer
  /\ flushes = <<>>
  /\ IF Len(batch) > 0
       THEN LET r == SendBatch(batch, isFlushing, sends, "timer")
            IN batch' = r.batch /\ sends' = r.sends
       ELSE UNCHANGED <<batch, sends>>
  /\ UNCHANGED <<cfg, batchTimer, isFlushing, flushes, flushCalls, logged,
                 recv, reported, raised, unhandled, fmtVars, fileVars>>

\* How a fetch can settle: a response with a 2xx or another status, a
\* rejection for a network error, or a rejection because the timer of
\* sendToLoki aborted it.
FetchFailures == {"non2xx", "network", "abort"}
LostResponses == {"network", "abort"}

\* The cause of a failure does not influence batching or retrying; the
\* specification of one send varies it.
SinkFailures == {"non2xx"}

\* A sendToLoki that does not look at the status of the response.
sendToLokiAnyResponse(outcome) ==
  IF outcome \in {"2xx", "non2xx"} THEN "resolved" ELSE "rejected"

\* sendToLoki once its fetch has settled: it throws on a response that is
\* not ok and lets a rejection of fetch pass.
sendToLoki(outcome) ==
  IF outcome = "2xx" THEN "resolved" ELSE "rejected"

\* The send after one attempt has settled: the retry loop returns on a
\* resolved fn(), and goes through its catch branch otherwise; the catch of
\* sendBatch follows a throw of the loop.
AfterAttempt(s, outcome, retries) ==
  IF sendToLoki(outcome) = "resolved"
    THEN [s EXCEPT !.phase = "delivered", !.outcomes = Append(@, outcome)]
    ELSE SendBatchCatch(RetryOnFailure([s EXCEPT !.outcomes = Append(@, outcome)],
                                       retries, BaseDelay))

\* A catch block that puts the entries of the failed batch back.
AfterCatchRebuffers(b, s) ==
  IF s.phase = "dropped" THEN s.entries \o b ELSE b

\* The buffer after the catch block of sendBatch, which only reports.
AfterCatch(b, s) == b

\* fetch resolved with a 2xx response: the endpoint has accepted the batch,
\* sendToLoki resolves, the retry loop returns and sendBatch completes.
AttemptSucceeds(i) ==
  /\ flushes = <<>>
  /\ sends[i].phase = "fetch"
  /\ sends' = [sends EXCEPT
                 ![i] = AfterAttempt([@ EXCEPT !.accepted = @ + 1], "2xx",
                                     cfg.retries)]
  /\ batch' = AfterCatch(batch, sends'[i])
  /\ UNCHANGED <<cfg, batchTimer, isFlushing, flushes, flushCalls,
                 logged, recv, reported, raised, unhandled, fmtVars, fileVars>>

\* sendToLoki rejected and the endpoint has not accepted the request: a
\* non-2xx response, a network error, or an abort on timeout before the
\* request was processed.
AttemptFails(i, cause) ==
  /\ flushes = <<>>
  /\ sends[i].phase = "fetch"
  /\ sends' = [sends EXCEPT ![i] = AfterAttempt(@, cause, cfg.retries)]
  /\ batch' = AfterCatch(batch, sends'[i])
  /\ UNCHANGED <<cfg, batchTimer, isFlushing, flushes, flushCalls,
                 logged, recv, reported, raised, unhandled, fmtVars, fileVars>>

\* sendToLoki rejected although the endpoint accepted the request: the
\* timer of sendToLoki aborted the fetch, or the connection failed, before
\* the 2xx response arrived.  The retry loop treats it as any failure.
AttemptLost(i, cause) ==
  /\ flushes = <<>>
  /\ sends[i].phase = "fetch"
  /\ sends' = [sends EXCEPT
                 ![i] = AfterAttempt([@ EXCEPT !.accepted = @ + 1], cause,
                                     cfg.retries)]
  /\ batch' = AfterCatch(batch, sends'[i])
  /\ UNCHANGED <<cfg, batchTimer, isFlushing, flushes, flushCalls,
                 logged, recv, reported, raised, unhandled, fmtVars, fileVars>>

\* sleep(delay) resolved: the loop increments attempt and calls fn() again.
BackoffElapsed(i) ==
  /\ flushes = <<>>
  /\ sends[i].phase = "sleep"
  /\ sends' = [sends EXCEPT ![i].phase = "fetch", ![i].attempt = @ + 1]
  /\ UNCHANGED <<cfg, batch, batchTimer, isFlushing, flushes, flushCalls,
                 logged, recv, reported, raised, unhandled, fmtVars, fileVars>>

\* LokiTransport.flush() up to `await this.sendBatch()`, or to its end when
\* the batch is empty.  isFlushing is already set when sendBatch is called.
LokiFlush ==
  /\ flushCalls < MaxFlush
  /\ flushCalls' = flushCalls + 1
  /\ batchTimer' = StopTimer(batchTimer)
  /\ IF Len(batch) > 0
       THEN LET r == SendBatch(batch, TRUE, sends, "flush")
            IN /\ batch' = r.batch
               /\ sends' = r.sends
               /\ isFlushing' = TRUE
               /\ flushes' = Append(flushes,
                               [pending |-> {batch[k].id : k \in 1..Len(batch)},
                                loggedSince |-> FALSE])
       ELSE /\ isFlushing' = FALSE
            /\ UNCHANGED <<batch, sends, flushes>>
  /\ UNCHANGED <<cfg, logged, recv, reported, raised, unhandled, fmtVars>>

FlushCall ==
  /\ LokiFlush
  /\ UNCHANGED fileVars

\* A flush() that resolves without resetting the flag.
LokiFlushResumeKeepsFlag ==
  /\ flushes # <<>>
  /\ flushes' = Tail(flushes)
  /\ UNCHANGED <<cfg, batch, batchTimer, sends, flushCalls, logged, recv,
                 reported, raised, unhandled, fmtVars, isFlushing>>

\* flush() resumed after the await: clears the flag and resolves.
LokiFlushResume ==
  /\ flushes # <<>>
  /\ flushes' = Tail(flushes)
  /\ isFlushing' = FALSE
  /\ UNCHANGED <<cfg, batch, batchTimer, sends, flushCalls, logged, recv,
                 reported, raised, unhandled, fmtVars>>

FlushResume ==
  /\ LokiFlushResume
  /\ UNCHANGED fileVars

Next ==
  \/ \E level \in SinkLevels, now \in 1..MaxTs,
        oc \in ConsoleOutcomes, of \in FileOutcomes :
       LevelMethod(level, now, [console |-> oc, file |-> of])
  \/ TimerTick
  \/ \E i \in 1..Len(sends) : AttemptSucceeds(i)
  \/ \E i \in 1..Len(sends), cause \in SinkFailures : AttemptFails(i, cause)
  \/ \E i \in 1..Len(sends) : BackoffElapsed(i)
  \/ FlushCall
  \/ FlushResume

Spec == Init /\ [][Next]_vars

\* ------------------------------------------- one send followed in detail
\* One event is buffered below the size threshold (the state after one
\* level-method call with batchSize 2); the timer takes it and the retry
\* loop runs under a wider range of retries and timeouts, and with attempts
\* whose request the endpoint accepted but whose response was lost, which
\* the retry loop cannot tell from any other failure.
TimeoutRange == {500, 1000, DefaultTimeout}

InitRetry ==
  /\ cfg \in [batchSize : {2}, retries : -1 .. MaxRunRetries,
              timeout : TimeoutRange]
  /\ batch = <<createEntry(Service, 1, 1, "info", "m", NoMetadata)>>
  /\ batchTimer = TRUE
  /\ isFlushing = FALSE
  /\ sends = <<>>
  /\ flushes = <<>>
  /\ flushCalls = 0
  /\ logged = 1
  /\ recv = [t \in {"console", "file", "loki"} |-> <<1>>]
  /\ reported = {}
  /\ raised = FALSE
  /\ unhandled = FALSE
  /\ fmtIn = <<>>
  /\ fmtOut = <<>>
  /\ writes = <<>>
  /\ file = <<>>
  /\ loggerFlushes = <<>>
  /\ microtasks = <<>>

NextRetry ==
  \/ TimerTick
  \/ \E i \in 1..Len(sends) : AttemptSucceeds(i)
  \/ \E i \in 1..Len(sends), cause \in FetchFailures : AttemptFails(i, cause)
  \/ \E i \in 1..Len(sends), cause \in LostResponses : AttemptLost(i, cause)
  \/ \E i \in 1..Len(sends) : BackoffElapsed(i)

SpecRetry == InitRetry /\ [][NextRetry]_vars

\* ------------------------------------------------- the formatter alone
FmtLevels == {"info", "error"}
FmtServices == {"svc", "api"}
FmtMetadata == {NoMetadata, << <<"event", "">> >>, << <<"event", "login">> >>}
FmtLabelSets == {<<>>, << <<"environment", "prod">> >>,
                 << <<"level", "audit">> >>, << <<"event", "static">> >>,
                 << <<"environment", "prod">>, <<"event", "static">> >>}
FmtEntryData == [timestamp : 1..MaxTs, level : FmtLevels,
                 service : FmtServices, metadata : FmtMetadata]

FmtEntries(d) ==
  [i \in 1..Len(d) |-> createEntry(d[i].service, i, d[i].timestamp,
                                   d[i].level, "m", d[i].metadata)]

InitFmt ==
  /\ InitSink({[batchSize |-> 1, retries |-> 0, timeout |-> DefaultTimeout]})
  /\ \E n \in 0..MaxFmtLen : \E d \in [1..n -> FmtEntryData] :
       \E l \in FmtLabelSets : fmtIn = [entries |-> FmtEntries(d), labels |-> l]
  /\ fmtOut = <<>>

\* The synchronous part of sendBatch applied to the given buffer.
FmtSendBatch ==
  /\ fmtOut = <<>>
  /\ LET taken == TakeBatch(fmtIn.entries, fmtIn.labels)
     IN fmtOut' = [op |-> "sendBatch", entries |-> taken.entries,
                   map |-> StreamMap(taken.entries, fmtIn.labels, <<>>),
                   payload |-> taken.payload]
  /\ UNCHANGED <<sinkVars, fmtIn, fileVars>>

\* formatLokiPayload(entries, staticLabels) called on the given entries.
FmtFormat ==
  /\ fmtOut = <<>>
  /\ fmtOut' = [op |-> "format", entries |-> fmtIn.entries,
                map |-> StreamMap(fmtIn.entries, fmtIn.labels, <<>>),
                payload |-> formatLokiPayload(fmtIn.entries, fmtIn.labels)]
  /\ UNCHANGED <<sinkVars, fmtIn, fileVars>>

NextFmt == FmtSendBatch \/ FmtFormat

SpecFmt == InitFmt /\ [][NextFmt]_vars

\* ------------------------------------------------ the level methods alone
\* A value passed where metadata is expected.  props are its own enumerable
\* properties, the ones an object spread copies and JSON.stringify writes;
\* message, name and stack of an Error are not among them.
Undefined == [kind |-> "undefined", props |-> <<>>, message |-> "",
              name |-> "", stack |-> ""]
Mapping(props) == [kind |-> "object", props |-> props, message |-> "",
                   name |-> "", stack |-> ""]
ErrorValue(message, name) ==
  [kind |-> "Error", props |-> <<>>, message |-> message, name |-> name,
   stack |-> "at main"]
OwnEnumerable(v) == v.props

\* A log object in which the entry's own fields are written last.
logObjectReservedLast(entry) ==
  Spread(entry.metadata,
         << <<"timestamp", entry.timestamp>>, <<"level", entry.level>>,
            <<"service", entry.service>>, <<"message", entry.message>> >>)

\* The object formatJSONL builds: the entry's fields, then its metadata.
logObject(entry) ==
  Spread(<< <<"timestamp", entry.timestamp>>, <<"level", entry.level>>,
            <<"service", entry.service>>, <<"message", entry.message>> >>,
         entry.metadata)

\* formatJSONL(entry): the JSON text of the log object and a newline.
formatJSONL(entry) == JSONStringify(logObject(entry)) \o <<"\n">>

\* debug, info, warn and error all have the parameters (message, metadata)
\* and pass them on to log(level, message, metadata); a third argument of a
\* call is not received by any parameter.  The entry holds the second
\* argument itself; its readers see its own enumerable properties.
LoggerMethod(level, id, now, message, second, third) ==
  createEntry(Service, id, now, level, message, OwnEnumerable(second))

ArgMappings == {<< <<"code", "1">> >>, << <<"event", "db_error">> >>,
                << <<"error", "explicit">> >>,
                << <<"errorName", "explicit">>, <<"code", "1">> >>,
                << <<"errorStack", "explicit">> >>,
                << <<"message", "other">> >>,
                << <<"level", "fatal">>, <<"message", "other">> >>,
                << <<"timestamp", 99>>, <<"service", "other">> >>}
ArgErrors == {ErrorValue(m, n) : m \in {"boom", ""},
                                 n \in {"Error", "TypeError"}}
SecondArgs == {Undefined} \cup {Mapping(m) : m \in ArgMappings} \cup ArgErrors
ThirdArgs == {Undefined} \cup {Mapping(m) : m \in ArgMappings}
AllLevels == {"debug", "info", "warn", "error"}

InitLevel ==
  /\ InitSink({[batchSize |-> 1, retries |-> 0, timeout |-> DefaultTimeout]})
  /\ fmtIn \in [message : {"msg"}, second : SecondArgs, third : ThirdArgs]
  /\ fmtOut = <<>>

\* One call of a level method with the given arguments, the line the file
\* transport formats for the dispatched entry and the payload the remote
\* sink formats for it.
LevelCall(level) ==
  /\ fmtOut = <<>>
  /\ \E e \in {LoggerMethod(level, 1, 1, fmtIn.message, fmtIn.second,
                            fmtIn.third)} :
       fmtOut' = [op |-> level, entry |-> e, line |-> formatJSONL(e),
                  remote |-> formatLokiPayload(<<e>>, <<>>)]
  /\ UNCHANGED <<sinkVars, fmtIn, fileVars>>

NextLevel == \E level \in AllLevels : LevelCall(level)

SpecLevel == InitLevel /\ [][NextLevel]_vars

\* ------------------------------------- the file sink and Logger.flush
\* A Logger with all three transports and a batchSize no log() reaches, in
\* the time between two timer ticks.  writes[i] is the write of the i-th
\* FileTransport.log call: "unformatted" when log() rejected before it
\* queued anything, else "queued", "writing", then "done" or "failed";
\* caught tells that the catch block around the write ran and reported.
\* A write is settled when the promise of its link in the chain resolved.
Settled(w) ==
  \/ w.state \in {"done", "unformatted"}
  \/ w.state = "failed" /\ w.caught

\* FileTransport.log(entry): formatJSONL, then the write is chained onto
\* writeQueue.
FileLogCall(ws, outcome) ==
  Append(ws, [state |-> IF outcome = "rejected" THEN "unformatted"
                        ELSE "queued",
              caught |-> FALSE])

\* A chained callback without try/catch: a failed write rejects the chain.
WriteCallbackNoCatch(w, outcome) == [w EXCEPT !.state = outcome]

\* The chained callback once writer.write has settled: a rejection is
\* caught and reported with console.error, so the callback resolves.
WriteCallback(w, outcome) ==
  [w EXCEPT !.state = outcome, !.caught = (outcome = "failed")]

\* The promise log() returned: the chain up to and including its own write,
\* or a rejected promise when formatting threw.
LogPromise(ws, i) ==
  IF ws[i].state = "unformatted" THEN "rejected"
  ELSE IF \A j \in 1..i : Settled(ws[j]) THEN "resolved"
  ELSE IF \E j \in 1..i : ws[j].state = "failed" /\ ~ws[j].caught
    THEN "rejected"
  ELSE "pending"

\* A log() that writes at once instead of chaining onto writeQueue.
CanStartUnqueued(ws, i) == ws[i].state = "queued"

\* writeQueue.then(callback): the callback of write i runs once the promise
\* of every earlier write has resolved; a failed write is caught and
\* resolves too.
CanStart(ws, i) ==
  /\ ws[i].state = "queued"
  /\ \A j \in 1..(i - 1) : Settled(ws[j])

\* A flush() that does not await writeQueue.
QueueSettledNoWait(ws, upto) == TRUE

\* `await this.writeQueue` in flush(): the promise read at the call is the
\* tail of the chain as it was then.
QueueSettled(ws, upto) == \A j \in 1..upto : Settled(ws[j])

\* The transports Logger.flush keeps: those with a flush method.
FlushTransports == SelectSeq(Transports, LAMBDA t : t \in {"file", "loki"})

Task(kind, k, outcome) == [kind |-> kind, flush |-> k, outcome |-> outcome]

\* A combinator that settles with the first promise that settles.
PromiseRace(lf, outcome) ==
  IF lf.state # "pending" THEN lf ELSE [lf EXCEPT !.state = outcome]

\* Promise.all reacting to one of its promises: it rejects on the first
\* rejection and resolves when all have resolved.
PromiseAll(lf, outcome) ==
  IF lf.state # "pending" THEN lf
  ELSE IF outcome = "rejected" THEN [lf EXCEPT !.state = "rejected"]
  ELSE IF lf.fulfilled + 1 = Len(FlushTransports)
    THEN [lf EXCEPT !.fulfilled = @ + 1, !.state = "resolved"]
  ELSE [lf EXCEPT !.fulfilled = @ + 1]

\* The continuations of the file flushes numbered k and up whose awaited
\* queue has now settled, oldest first.
RECURSIVE FileReady(_, _, _)
FileReady(lfs, ws, k) ==
  IF k > Len(lfs) THEN <<>>
  ELSE (IF lfs[k].file = "queue" /\ QueueSettled(ws, lfs[k].upto)
          THEN <<Task("file", k, "resolved")>> ELSE <<>>)
       \o FileReady(lfs, ws, k + 1)

InitFile ==
  /\ InitSink({[batchSize |-> MaxEvents + 1, retries |-> 0,
                timeout |-> DefaultTimeout]})
  /\ fmtIn = <<>>
  /\ fmtOut = <<>>

\* A level method of the Logger: the dispatch, and the write that
\* FileTransport.log queues.
LoggerLog(out) ==
  /\ LogDispatch("info", 1, [console |-> "void", file |-> out])
  /\ writes' = FileLogCall(writes, out)
  /\ UNCHANGED <<file, loggerFlushes, microtasks>>

\* The callback chained for write i runs: writer.write(formatted) is called.
WriteStarts(i) ==
  /\ CanStart(writes, i)
  /\ writes' = [writes EXCEPT ![i].state = "writing"]
  /\ UNCHANGED <<sinkVars, fmtVars, file, loggerFlushes, microtasks>>

\* writer.write settled: the line is in the file, or the failure is caught
\* and reported.  A flush awaiting the queue up to this write continues.
WriteSettles(i, outcome) ==
  /\ writes[i].state = "writing"
  /\ writes' = [writes EXCEPT ![i] = WriteCallback(@, outcome)]
  /\ file' = IF outcome = "done" THEN Append(file, i) ELSE file
  /\ \E tasks \in {FileReady(loggerFlushes,
                             [writes EXCEPT ![i] = WriteCallback(@, outcome)],
                             1)} :
       /\ microtasks' = microtasks \o tasks
       /\ loggerFlushes' =
            [k \in 1..Len(loggerFlushes) |->
               IF \E n \in 1..Len(tasks) : tasks[n].flush = k
                 THEN [loggerFlushes[k] EXCEPT !.file = "ready"]
                 ELSE loggerFlushes[k]]
  /\ UNCHANGED <<sinkVars, fmtVars>>

\* Logger.flush(): file.flush() and loki.flush() are called in turn, each
\* running to its first await, then Promise.all subscribes to both.
LoggerFlush ==
  /\ LokiFlush
  /\ loggerFlushes' =
       Append(loggerFlushes,
              [upto |-> Len(writes),
               file |-> IF QueueSettled(writes, Len(writes))
                          THEN "ready" ELSE "queue",
               loki |-> IF Len(batch) > 0 THEN "await" ELSE "resolved",
               fulfilled |-> 0,
               state |-> "pending"])
  /\ microtasks' =
       microtasks
       \o (IF QueueSettled(writes, Len(writes))
             THEN <<Task("file", Len(loggerFlushes) + 1, "resolved")>>
             ELSE <<>>)
       \o (IF Len(batch) > 0
             THEN <<Task("loki", Len(loggerFlushes) + 1, "resolved")>>
             ELSE <<Task("all", Len(loggerFlushes) + 1, "resolved")>>)
  /\ UNCHANGED <<writes, file>>

\* FileTransport.flush() resumed after `await this.writeQueue`: it calls
\* writer.flush(), which throws at once or returns a pending promise.
FileFlushResume(ok) ==
  /\ microtasks # <<>>
  /\ Head(microtasks).kind = "file"
  /\ loggerFlushes' = [loggerFlushes EXCEPT ![Head(microtasks).flush].file =
                         IF ok THEN "flush" ELSE "rejected"]
  /\ microtasks' = IF ok THEN Tail(microtasks)
                   ELSE Append(Tail(microtasks),
                               Task("all", Head(microtasks).flush, "rejected"))
  /\ UNCHANGED <<sinkVars, fmtVars, writes, file>>

\* LokiTransport.flush() resumed after `await this.sendBatch()`.
LokiFlushMicrotask ==
  /\ microtasks # <<>>
  /\ Head(microtasks).kind = "loki"
  /\ LokiFlushResume
  /\ loggerFlushes' = [loggerFlushes EXCEPT ![Head(microtasks).flush].loki =
                         "resolved"]
  /\ microtasks' = Append(Tail(microtasks),
                          Task("all", Head(microtasks).flush, "resolved"))
  /\ UNCHANGED <<writes, file>>

\* The reaction of Promise.all to one settled sink flush.
PromiseAllReaction ==
  /\ microtasks # <<>>
  /\ Head(microtasks).kind = "all"
  /\ loggerFlushes' = [loggerFlushes EXCEPT ![Head(microtasks).flush] =
                         PromiseAll(@, Head(microtasks).outcome)]
  /\ microtasks' = Tail(microtasks)
  /\ UNCHANGED <<sinkVars, fmtVars, writes, file>>

\* writer.flush() settled: flush() goes on to writer.end(), or rejects.
WriterFlushSettles(k, ok) ==
  /\ loggerFlushes[k].file = "flush"
  /\ loggerFlushes' = [loggerFlushes EXCEPT ![k].file =
                         IF ok THEN "end" ELSE "rejected"]
  /\ microtasks' = IF ok THEN microtasks
                   ELSE Append(microtasks, Task("all", k, "rejected"))
  /\ UNCHANGED <<sinkVars, fmtVars, writes, file>>

\* writer.end() settled: flush() resolves, or rejects.
WriterEndSettles(k, ok) ==
  /\ loggerFlushes[k].file = "end"
  /\ loggerFlushes' = [loggerFlushes EXCEPT ![k].file =
                         IF ok THEN "resolved" ELSE "rejected"]
  /\ microtasks' = Append(microtasks,
                          Task("all", k, IF ok THEN "resolved" ELSE "rejected"))
  /\ UNCHANGED <<sinkVars, fmtVars, writes, file>>

NextFile ==
  \/ \E out \in FileOutcomes : LoggerLog(out)
  \/ \E i \in 1..Len(writes) : WriteStarts(i)
  \/ \E i \in 1..Len(writes), outcome \in {"done", "failed"} :
       WriteSettles(i, outcome)
  \/ LoggerFlush
  \/ \E ok \in BOOLEAN : FileFlushResume(ok)
  \/ LokiFlushMicrotask
  \/ PromiseAllReaction
  \/ \E k \in 1..Len(loggerFlushes), ok \in BOOLEAN : WriterFlushSettles(k, ok)
  \/ \E k \in 1..Len(loggerFlushes), ok \in BOOLEAN : WriterEndSettles(k, ok)

SpecFile == InitFile /\ [][NextFile]_vars

\* ------------------------------------------------ the timer kept ticking
\* The remote sink with transports that do not fail, under the assumption
\* that an armed interval timer whose callback has something to take does
\* fire: setInterval keeps calling the callback until clearInterval.
InitTimer ==
  /\ InitSink([batchSize : BatchSizeRange, retries : {0},
               timeout : {DefaultTimeout}])
  /\ fmtIn = <<>>
  /\ fmtOut = <<>>

NextTimer ==
  \/ \E now \in 1..MaxTs :
       LevelMethod("info", now, [console |-> "void", file |-> "resolved"])
  \/ TimerTick
  \/ \E i \in 1..Len(sends) : AttemptSucceeds(i)
  \/ \E i \in 1..Len(sends), cause \in SinkFailures : AttemptFails(i, cause)
  \/ FlushCall
  \/ FlushResume

SpecTimer == InitTimer /\ [][NextTimer]_vars /\ WF_vars(TimerTick)

\* =============================================================== claims
Ids(es) == {es[k].id : k \in 1..Len(es)}
Finished(s) == s.phase \in {"delivered", "dropped"}
FlushResolves == Len(flushes') < Len(flushes)
TimerSends(ss) == Cardinality({i \in 1..Len(ss) : ss[i].trigger = "timer"})

\* C1: when a flush() that found events in the buffer resolves, every one
\* of those events is in a batch that was taken for sending, and the send
\* of that batch has completed (delivered, or dropped after its retries).
C1_FlushSendsBuffered ==
  [][FlushResolves =>
       \A id \in Head(flushes).pending :
         \E i \in 1..Len(sends') :
           id \in Ids(sends'[i].entries) /\ Finished(sends'[i])]_vars

\* C2: when flush() resolves and nothing was logged since it was called,
\* the batch buffer is empty.
C2_BufferEmptyAfterFlush ==
  [][(FlushResolves /\ ~Head(flushes).loggedSince) => batch' = <<>>]_vars

\* C3: from the first flush() call on, the timer is stopped and no further
\* batch is taken by a timer tick, whatever is logged afterwards.
C3_TimerStoppedAfterFlush ==
  [][flushCalls' > 0 =>
       (batchTimer' = FALSE /\ TimerSends(sends') = TimerSends(sends))]_vars

\* A flush has resolved, the timer had taken a batch before it, and events
\* sit in the buffer that an armed timer would take.
C3_Witness ==
  /\ flushCalls > 0
  /\ flushes = <<>>
  /\ ~batchTimer
  /\ Len(batch) > 0
  /\ \E i \in 1..Len(sends) : sends[i].trigger = "timer"

LogStep == logged' = logged + 1
ThresholdReached == Len(batch) + 1 >= cfg.batchSize
LastSend(ss) == ss[Len(ss)]

\* C4 as stated: every log() call that brings the buffer to batchSize or
\* more takes the whole buffer into one new send within the call, whose
\* first delivery attempt is started at once (stated for retries >= 0; with
\* negative retries only that the send is begun).
C4_EveryThresholdLogSends ==
  [][(LogStep /\ ThresholdReached) =>
       /\ batch' = <<>>
       /\ Len(sends') = Len(sends) + 1
       /\ Ids(LastSend(sends').entries) = Ids(batch) \cup {logged'}
       /\ cfg.retries >= 0 => /\ LastSend(sends').attempt = 1
                              /\ LastSend(sends').phase = "fetch"]_vars

\* C4 amended: a log() call that brings the buffer to batchSize or more
\* while isFlushing is false takes the whole buffer into exactly one new
\* send within the call, leaving the buffer empty and the earlier sends
\* untouched; the first delivery attempt of that send is started within the
\* call when retries >= 0, and with negative retries the retry loop makes
\* no attempt and the taken batch is dropped at once.  While isFlushing is
\* true the call only appends the event.
C4_ThresholdSendUnlessFlushing ==
  [][(LogStep /\ ThresholdReached) =>
       IF isFlushing
         THEN /\ sends' = sends
              /\ Len(batch') = Len(batch) + 1
              /\ SubSeq(batch', 1, Len(batch)) = batch
              /\ batch'[Len(batch')].id = logged'
         ELSE /\ batch' = <<>>
              /\ Len(sends') = Len(sends) + 1
              /\ SubSeq(sends', 1, Len(sends)) = sends
              /\ Ids(LastSend(sends').entries) = Ids(batch) \cup {logged'}
              /\ LastSend(sends').trigger = "log"
              /\ LastSend(sends').delays = <<>>
              /\ IF cfg.retries >= 0
                   THEN /\ LastSend(sends').attempt = 1
                        /\ LastSend(sends').phase = "fetch"
                   ELSE /\ LastSend(sends').attempt = 0
                        /\ LastSend(sends').phase = "dropped"]_vars

\* The state right after a log() call that reached a threshold of two or
\* more: the buffer is empty and the newest send, taken by log(), is on its
\* first attempt with no timer tick having taken anything.
C4_Witness ==
  /\ sends # <<>>
  /\ batch = <<>>
  /\ cfg.batchSize >= 2
  /\ Len(LastSend(sends).entries) = cfg.batchSize
  /\ LastSend(sends).trigger = "log"
  /\ LastSend(sends).attempt = 1
  /\ LastSend(sends).phase = "fetch"
  /\ TimerSends(sends) = 0

\* C5: with retries = N >= 0, no send ever makes more than N+1 attempts, a
\* send whose attempts all failed is dropped after exactly N+1 attempts,
\* and the failure never leaves sendBatch as an exception.
C5_AttemptsThenDrop ==
  \A i \in 1..Len(sends) :
    cfg.retries >= 0 =>
      /\ sends[i].attempt <= cfg.retries + 1
      /\ sends[i].phase = "dropped" => sends[i].attempt = cfg.retries + 1
      /\ sends[i].phase # "threw"

\* A batch dropped after retries + 1 >= 2 failed attempts.
C5_Witness ==
  \E i \in 1..Len(sends) :
    /\ cfg.retries >= 1
    /\ sends[i].phase = "dropped"
    /\ sends[i].attempt = cfg.retries + 1

\* C6: the k-th delay a send has waited is 1000 * 2^(k-1) ms whatever the
\* configured timeout; a send has waited one delay per failed attempt that
\* was followed by another attempt, so none before the first attempt and
\* none after the last failed one.
C6_BackoffSchedule ==
  \A i \in 1..Len(sends) :
    /\ \A k \in 1..Len(sends[i].delays) :
         sends[i].delays[k] = 1000 * 2 ^ (k - 1)
    /\ Len(sends[i].delays) =
         CASE sends[i].phase = "sleep" -> sends[i].attempt
           [] sends[i].attempt = 0 -> 0
           [] OTHER -> sends[i].attempt - 1

\* A batch dropped after four attempts with delays of 1, 2 and 4 seconds
\* under a timeout other than the base delay.
C6_Witness ==
  \E i \in 1..Len(sends) :
    /\ cfg.timeout # 1000
    /\ sends[i].phase = "dropped"
    /\ sends[i].attempt = 4
    /\ sends[i].delays = <<1000, 2000, 4000>>

NonDecreasing(q) == \A k \in 1..(Len(q) - 1) : q[k] <= q[k + 1]
Timestamps(es) == [k \in 1..Len(es) |-> es[k].timestamp]

\* C7: the entries sendBatch hands to the formatter are the buffered
\* entries in non-decreasing timestamp order with equal timestamps in
\* enqueue order, and the values of every stream of the payload carry
\* non-decreasing timestamps.
C7_SortedStableBatch ==
  (fmtOut # <<>> /\ fmtOut.op = "sendBatch") =>
    LET es == fmtOut.entries
    IN /\ Len(es) = Len(fmtIn.entries)
       /\ \A k \in 1..Len(es) : es[k] = fmtIn.entries[es[k].id]
       /\ Ids(es) = 1..Len(es)
       /\ NonDecreasing(Timestamps(es))
       /\ \A j, k \in 1..Len(es) :
            (j < k /\ es[j].timestamp = es[k].timestamp) => es[j].id < es[k].id
       /\ \A i \in 1..Len(fmtOut.payload) :
            NonDecreasing([k \in 1..Len(fmtOut.payload[i].values) |->
                             fmtOut.payload[i].values[k][1]])

\* A batch enqueued out of timestamp order, with a tie, that comes out as
\* two streams, one of them holding two values.
C7_Witness ==
  /\ fmtOut # <<>>
  /\ fmtOut.op = "sendBatch"
  /\ ~NonDecreasing(Timestamps(fmtIn.entries))
  /\ \E j, k \in 1..Len(fmtIn.entries) :
       j < k /\ fmtIn.entries[j].timestamp = fmtIn.entries[k].timestamp
  /\ Len(fmtOut.payload) = 2
  /\ \E i \in 1..Len(fmtOut.payload) : Len(fmtOut.payload[i].values) = 2

\* Where the formatter put each entry, read off its grouping and payload.
StreamsOf(e) ==
  {i \in 1..Len(fmtOut.map) :
     \E j \in 1..Len(fmtOut.map[i].group) : fmtOut.map[i].group[j].id = e.id}
MetaEvent(e) ==
  IF HasKey(e.metadata, "event") THEN <<Get(e.metadata, "event")>> ELSE <<>>
SameFields(a, b) ==
  a.service = b.service /\ a.level = b.level /\ MetaEvent(a) = MetaEvent(b)
EachEntryOnce ==
  /\ Len(fmtOut.payload) = Len(fmtOut.map)
  /\ \A i \in 1..Len(fmtOut.map) :
       /\ Len(fmtOut.payload[i].values) = Len(fmtOut.map[i].group)
       /\ \A j \in 1..Len(fmtOut.map[i].group) :
            /\ fmtOut.payload[i].values[j][1] =
                 fmtOut.map[i].group[j].timestamp * 1000000
            /\ Cardinality({k \in 1..Len(fmtOut.map[i].group) :
                 fmtOut.map[i].group[k].id = fmtOut.map[i].group[j].id}) = 1
  /\ \A k \in 1..Len(fmtOut.entries) :
       Cardinality(StreamsOf(fmtOut.entries[k])) = 1

\* The label set of an entry as a set of pairs: service, level and a
\* non-empty event, each replaced by a static label of the same name.
LabelSet(e, static) ==
  LET derived == {<<"service", e.service>>, <<"level", e.level>>}
                   \cup {<<"event", v[1]>> : v \in {MetaEvent(e)} \ {<<>>, <<"">>}}
      fixed == {static[i] : i \in 1..Len(static)}
  IN {p \in derived : \A q \in fixed : q[1] # p[1]} \cup fixed

\* C8 as stated: every entry appears once in the payload, entries with the
\* same service, level and metadata.event share a stream, and entries that
\* differ in one of the three are in different streams.
C8_StreamPerFieldTriple ==
  fmtOut # <<>> =>
    /\ EachEntryOnce
    /\ \A j, k \in 1..Len(fmtOut.entries) :
         LET a == fmtOut.entries[j]
             b == fmtOut.entries[k]
         IN SameFields(a, b) <=> StreamsOf(a) = StreamsOf(b)

\* C8 amended: every entry appears once in the payload; entries with the same
\* service, level and metadata.event share one stream; and entries whose
\* label sets differ are in distinct streams, the label set being service,
\* level and the event when metadata.event is non-empty, overlaid by the
\* static labels.  Every stream carries the label set of its entries.
C8_StreamPerLabelSet ==
  fmtOut # <<>> =>
    /\ EachEntryOnce
    /\ \A j, k \in 1..Len(fmtOut.entries) :
         LET a == fmtOut.entries[j]
             b == fmtOut.entries[k]
         IN /\ SameFields(a, b) => StreamsOf(a) = StreamsOf(b)
            /\ LabelSet(a, fmtIn.labels) # LabelSet(b, fmtIn.labels)
                 => StreamsOf(a) # StreamsOf(b)
    /\ \A i \in 1..Len(fmtOut.payload) :
         \A j \in 1..Len(fmtOut.map[i].group) :
           {fmtOut.payload[i].stream[k] : k \in 1..Len(fmtOut.payload[i].stream)}
             = LabelSet(fmtOut.map[i].group[j], fmtIn.labels)

\* Three entries in two streams: two that differ in metadata.event (absent
\* against empty) share one, a third with another level has its own.
C8_Witness ==
  /\ fmtOut # <<>>
  /\ Len(fmtOut.entries) = 3
  /\ Len(fmtOut.payload) = 2
  /\ \E j, k \in 1..3 :
       /\ j # k
       /\ MetaEvent(fmtOut.entries[j]) = <<>>
       /\ MetaEvent(fmtOut.entries[k]) = <<"">>
       /\ StreamsOf(fmtOut.entries[j]) = StreamsOf(fmtOut.entries[k])

\* C9: whatever the other transports' log() did (threw, or returned a
\* rejected promise), every transport has been called exactly once with
\* each event logged so far, in call order.
C9_EverySinkReceivesEveryEvent ==
  \A t \in {"console", "file", "loki"} : recv[t] = [i \in 1..logged |-> i]

\* The console transport has thrown and the file transport has rejected,
\* and the remote sink holds or has taken every event.
C9_Witness ==
  /\ reported = {"console", "file"}
  /\ logged >= 2
  /\ Len(recv["loki"]) = logged
  /\ Len(batch) = logged

\* C10: no exception leaves a level method, no rejection is left without a
\* handler, and no send ends by throwing out of sendBatch.
C10_NoFailureReachesCaller ==
  /\ ~raised
  /\ ~unhandled
  /\ \A i \in 1..Len(sends) : sends[i].phase # "threw"

\* Both local transports have failed and a send started by log() at the
\* size threshold has failed on every attempt and was dropped.
C10_Witness ==
  /\ reported = {"console", "file"}
  /\ \E i \in 1..Len(sends) :
       /\ sends[i].trigger = "log"
       /\ sends[i].phase = "dropped"
       /\ sends[i].attempt >= 2

ErrorCalled == fmtOut # <<>> /\ fmtOut.op = "error"
\* The members of a JSON text read back from its tokens, and whether the
\* tokens are one object's text.
JSONBody(text) == SubSeq(text, 2, Len(text) - 1)
JSONObject(text) ==
  [i \in 1..((Len(JSONBody(text)) + 1) \div 4) |->
     <<JSONBody(text)[4 * i - 3], JSONBody(text)[4 * i - 1]>>]
IsJSONObject(text) ==
  /\ Len(text) >= 2
  /\ text[1] = "{" /\ text[Len(text)] = "}"
  /\ Len(JSONBody(text)) = 0 \/ (Len(JSONBody(text)) + 1) % 4 = 0
  /\ \A i \in 1..Len(JSONBody(text)) :
       /\ i % 4 = 2 => JSONBody(text)[i] = ":"
       /\ i % 4 = 0 => JSONBody(text)[i] = ","
       /\ i % 4 \in {1, 3} => JSONBody(text)[i] \notin {"{", "}", ":", ",", "\n"}
  /\ \A i, j \in 1..Len(JSONObject(text)) :
       JSONObject(text)[i][1] = JSONObject(text)[j][1] => i = j
JSONLine(line) == JSONObject(SubSeq(line, 1, Len(line) - 1))
HasField(obj, k, v) == HasKey(obj, k) /\ Get(obj, k) = v

\* C11: after error(message, err) with err an Error, the metadata of the
\* dispatched entry and the JSONL line contain error = err.message,
\* errorName = err.name and a non-empty errorStack.
C11_ErrorFieldsExtracted ==
  (ErrorCalled /\ fmtIn.second.kind = "Error") =>
    /\ HasField(fmtOut.entry.metadata, "error", fmtIn.second.message)
    /\ HasField(fmtOut.entry.metadata, "errorName", fmtIn.second.name)
    /\ HasKey(fmtOut.entry.metadata, "errorStack")
    /\ Get(fmtOut.entry.metadata, "errorStack") # ""
    /\ HasField(JSONLine(fmtOut.line), ToString("error"),
                ToString(fmtIn.second.message))
    /\ HasField(JSONLine(fmtOut.line), ToString("errorName"),
                ToString(fmtIn.second.name))
    /\ HasKey(JSONLine(fmtOut.line), ToString("errorStack"))

\* C12: after error(message, err, metadata) with err an Error and metadata
\* a mapping, every key of the mapping is in the entry's metadata with the
\* mapping's value (so the explicit value wins over an error-derived one),
\* and the error-derived fields that the mapping does not name are there.
C12_ExplicitMetadataMergedOnTop ==
  (ErrorCalled /\ fmtIn.second.kind = "Error" /\ fmtIn.third.kind = "object") =>
    /\ \A i \in 1..Len(fmtIn.third.props) :
         HasField(fmtOut.entry.metadata, fmtIn.third.props[i][1],
                  fmtIn.third.props[i][2])
    /\ HasKey(fmtIn.third.props, "error")
         \/ HasField(fmtOut.entry.metadata, "error", fmtIn.second.message)
    /\ HasKey(fmtIn.third.props, "errorName")
         \/ HasField(fmtOut.entry.metadata, "errorName", fmtIn.second.name)
    /\ HasKey(fmtOut.entry.metadata, "errorStack")

SinkFlushDone(lf) == lf.file \in {"resolved", "rejected"} /\ lf.loki = "resolved"

\* C13: every Logger.flush() call has started the flush of both sinks that
\* have one; it settles only once both sink flushes have completed, resolves
\* only if both resolved, and a failed file flush leaves the remote flush to
\* run to its end.
C13_FlushWaitsForEverySink ==
  /\ Len(loggerFlushes) = flushCalls
  /\ \A k \in 1..Len(loggerFlushes) :
       /\ loggerFlushes[k].state # "pending" => SinkFlushDone(loggerFlushes[k])
       /\ loggerFlushes[k].state = "resolved" =>
            (loggerFlushes[k].file = "resolved" /\ loggerFlushes[k].fulfilled = 2)
       /\ loggerFlushes[k].state = "rejected" =>
            loggerFlushes[k].file = "rejected"
  /\ (microtasks = <<>> /\ \A k \in 1..Len(loggerFlushes) :
                             loggerFlushes[k].file = "rejected")
       => (flushes = <<>> /\ ~isFlushing)

\* The file flush of a Logger.flush() has failed while the remote flush it
\* started is still suspended at its await and Logger.flush() is pending; an
\* earlier Logger.flush() has resolved.
C13_Witness ==
  /\ Len(loggerFlushes) = 2
  /\ loggerFlushes[1].state = "resolved"
  /\ loggerFlushes[2].state = "pending"
  /\ loggerFlushes[2].file = "rejected"
  /\ loggerFlushes[2].loki = "await"

Done(ws) == {i \in 1..Len(ws) : ws[i].state = "done"}
Started(w) == w.state \in {"writing", "done", "failed"}

\* C14: the file holds one line for each call whose write has completed and
\* none for any other, the lines are in call order, at most one write is
\* under way, and a write is not started before every write queued earlier
\* has completed.
C14_FileLinesInCallOrder ==
  /\ Len(writes) = logged
  /\ {file[n] : n \in 1..Len(file)} = Done(writes)
  /\ Len(file) = Cardinality(Done(writes))
  /\ \A m, n \in 1..Len(file) : m < n => file[m] < file[n]
  /\ Cardinality({i \in 1..Len(writes) : writes[i].state = "writing"}) <= 1
  /\ \A i, j \in 1..Len(writes) :
       (i < j /\ Started(writes[j])) => Settled(writes[i])

\* Three calls made while the first write was pending, all written.
C14_Witness ==
  /\ file = <<1, 2, 3>>
  /\ reported = {}

\* C15: a file flush that has got past its await of the queue, and so any
\* that has resolved, finds every write queued before its call completed.
C15_FlushAfterQueuedWrites ==
  \A k \in 1..Len(loggerFlushes) :
    loggerFlushes[k].file # "queue" =>
      \A i \in 1..loggerFlushes[k].upto : Settled(writes[i])

\* A file flush called with two writes queued has resolved, with a third
\* write, queued after the call, still to be made.
C15_Witness ==
  \E k \in 1..Len(loggerFlushes) :
    /\ loggerFlushes[k].file = "resolved"
    /\ loggerFlushes[k].upto = 2
    /\ file = <<1, 2>>
    /\ Len(writes) = 3
    /\ writes[3].state = "queued"

\* C16 as stated: the endpoint accepts a batch taken from the buffer at
\* most once, whatever the outcomes of its attempts.
C16_AcceptedAtMostOnce ==
  \A i \in 1..Len(sends) : sends[i].accepted <= 1

\* C16 amended: the endpoint accepts a batch at most once per delivery
\* attempt made for it, so at most retries + 1 times over all outcomes:
\* never with negative retries, at most once with retries = 0, and more
\* than once only when an attempt the endpoint accepted ended for the
\* client in a timeout abort or network error and was retried.
C16_AcceptedAtMostOncePerAttempt ==
  \A i \in 1..Len(sends) :
    /\ sends[i].accepted <= sends[i].attempt
    /\ sends[i].accepted <= (IF cfg.retries >= 0 THEN cfg.retries + 1 ELSE 0)
    /\ cfg.retries <= 0 => sends[i].accepted <= 1
    /\ sends[i].accepted > 1 => Len(sends[i].delays) >= sends[i].accepted - 1

\* A batch accepted on an attempt whose response was lost, retried after
\* the backoff and accepted again with a 2xx response.
C16_Witness ==
  \E i \in 1..Len(sends) :
    /\ sends[i].phase = "delivered"
    /\ sends[i].accepted = 2
    /\ sends[i].attempt = 2
    /\ cfg.retries >= 1

InProgress(s) == s.phase \in {"fetch", "sleep"}

\* C17: in no reachable state are two sends of the remote sink in progress
\* (awaiting delivery or in backoff) at once.
C17_OneSendInProgress ==
  Cardinality({i \in 1..Len(sends) : InProgress(sends[i])}) <= 1

Occurrences(es, id) == Cardinality({k \in 1..Len(es) : es[k].id = id})
RECURSIVE TakenOccurrences(_, _)
TakenOccurrences(ss, id) ==
  IF ss = <<>> THEN 0
  ELSE Occurrences(Head(ss).entries, id) + TakenOccurrences(Tail(ss), id)

\* C18: every event passed to log() so far is in exactly one place: once in
\* the batch buffer, or once in exactly one batch taken for sending; and
\* nothing else is in either.
C18_EventInExactlyOnePlace ==
  /\ \A id \in 1..logged :
       Occurrences(batch, id) + TakenOccurrences(sends, id) = 1
  /\ Ids(batch) \subseteq 1..logged
  /\ \A i \in 1..Len(sends) : Ids(sends[i].entries) \subseteq 1..logged

\* A flush() is suspended, an event logged after it was called sits in the
\* buffer, and a timer tick has taken a batch before.
C18_Witness ==
  /\ flushes # <<>>
  /\ Head(flushes).loggedSince
  /\ Len(batch) >= 2
  /\ \E i \in 1..Len(sends) : sends[i].trigger = "timer"

\* C19: no batch taken for sending holds more than batchSize events.
C19_BatchWithinBatchSize ==
  \A i \in 1..Len(sends) : Len(sends[i].entries) <= cfg.batchSize

\* C20: the endpoint has never accepted a batch while a batch taken before
\* it was neither accepted nor dropped.
C20_AcceptedInTakenOrder ==
  \A i, j \in 1..Len(sends) :
    (i < j /\ sends[j].accepted > 0) => Finished(sends[i])

\* C21: a step in which a send fails leaves the batch buffer as it was, and
\* the events of a dropped batch are neither in the buffer nor in any other
\* batch taken, before or after.
C21_DroppedNeverRebuffered ==
  [][/\ (/\ Len(sends') = Len(sends)
         /\ \E i \in 1..Len(sends) :
              /\ sends[i].phase = "fetch"
              /\ sends'[i].phase \in {"sleep", "dropped"})
        => batch' = batch
     /\ \A i \in 1..Len(sends') :
          sends'[i].phase = "dropped" =>
            /\ Ids(sends'[i].entries) \cap Ids(batch') = {}
            /\ \A j \in 1..Len(sends') :
                 j # i => Ids(sends'[i].entries) \cap Ids(sends'[j].entries) = {}
    ]_vars

\* A batch was dropped after a failed retry while the buffer held an event
\* logged after the snapshot, and a later batch has been taken since.
C21_Witness ==
  /\ Len(sends) >= 2
  /\ sends[1].phase = "dropped"
  /\ sends[1].attempt >= 2
  /\ Len(batch) >= 1

Settlements(s) == IF s.phase = "fetch" THEN s.attempt - 1 ELSE s.attempt

\* C22: every attempt of a send that has settled is recorded with its
\* outcome; a non-2xx response, a network error and an abort each left the
\* send in backoff for the next attempt while attempts remained and dropped
\* it after the last one; a 2xx response is the outcome of the last attempt
\* only, after which the send is delivered and makes no further attempt.
C22_FailuresRetrySuccessEnds ==
  \A i \in 1..Len(sends) :
    LET s == sends[i]
        n == Len(s.outcomes)
    IN /\ n = Settlements(s)
       /\ \A k \in 1..(n - 1) : s.outcomes[k] \in FetchFailures
       /\ s.phase = "delivered" <=> (n > 0 /\ s.outcomes[n] = "2xx")
       /\ (n > 0 /\ s.outcomes[n] \in FetchFailures) =>
            IF s.attempt = n /\ n <= cfg.retries THEN s.phase = "sleep"
            ELSE IF s.attempt = n THEN s.phase = "dropped"
            ELSE s.phase = "fetch" /\ s.attempt = n + 1
       /\ Len(s.delays) = Cardinality({k \in 1..n : s.outcomes[k] \in FetchFailures
                                                    /\ k <= cfg.retries})

\* A send that failed with a non-2xx response, a network error and an
\* abort, each followed by a retry, and was delivered on its fourth attempt.
C22_Witness ==
  \E i \in 1..Len(sends) :
    /\ sends[i].outcomes = <<"non2xx", "network", "abort", "2xx">>
    /\ sends[i].phase = "delivered"
    /\ sends[i].attempt = 4

\* C23: while flush() has not been called and the timer keeps ticking,
\* every event in the batch buffer is eventually taken out of it into a
\* batch for sending, whether or not the size threshold is reached.
C23_BufferedEventuallyTaken ==
  \A id \in 1..MaxEvents :
    (id \in Ids(batch)) ~> (id \notin Ids(batch) \/ flushCalls > 0)

\* Before any flush() a timer tick has taken a batch smaller than batchSize.
C23_Witness ==
  /\ flushCalls = 0
  /\ \E i \in 1..Len(sends) :
       /\ sends[i].trigger = "timer"
       /\ Len(sends[i].entries) < cfg.batchSize

\* C24: however often flush() is called, in sequence or overlapping, no
\* failure reaches the caller, the timer stays stopped from the first call
\* on, the flushing flag is false whenever no flush() call is suspended,
\* and a log() that then reaches the size threshold takes the buffer into
\* a send.
C24_RepeatedFlushSafe ==
  [][/\ ~raised' /\ ~unhandled'
     /\ flushCalls' > 0 => ~batchTimer'
     /\ flushes' = <<>> => ~isFlushing'
     /\ (LogStep /\ ThresholdReached /\ flushCalls > 0 /\ flushes = <<>>) =>
          (batch' = <<>> /\ Len(sends') = Len(sends) + 1
             /\ LastSend(sends').trigger = "log")
    ]_vars

\* Two flush() calls have been made and have resolved, and a log() has
\* since taken the buffer, events held back during a flush() included.
C24_Witness ==
  /\ flushCalls = 2
  /\ flushes = <<>>
  /\ ~isFlushing
  /\ sends # <<>>
  /\ LastSend(sends).trigger = "log"
  /\ Len(LastSend(sends).entries) > cfg.batchSize

\* C25: a write that failed has been caught and reported, the promise its
\* log() call returned has resolved, and the write queued next can start as
\* soon as no earlier write is under way: the failure does not hold it back.
C25_WriteFailureDoesNotHaltQueue ==
  \A i \in 1..Len(writes) :
    /\ writes[i].state = "failed" =>
         (writes[i].caught /\ LogPromise(writes, i) # "rejected")
    /\ (/\ writes[i].state = "queued"
        /\ \A j \in 1..(i - 1) : writes[j].state \notin {"queued", "writing"}
        /\ \E j \in 1..(i - 1) : writes[j].state = "failed")
         => (CanStart(writes, i) /\ ENABLED WriteStarts(i))
    /\ (/\ writes[i].state = "failed"
        /\ \A j \in 1..(i - 1) : Settled(writes[j]))
         => LogPromise(writes, i) = "resolved"

\* The first write failed and the two queued behind it were made, in order.
C25_Witness ==
  /\ Len(writes) = 3
  /\ writes[1].state = "failed"
  /\ file = <<2, 3>>

StreamLabels(i) ==
  {fmtOut.payload[i].stream[k] : k \in 1..Len(fmtOut.payload[i].stream)}
FirstWith(labels) ==
  CHOOSE k \in 1..Len(fmtOut.entries) :
    /\ LabelSet(fmtOut.entries[k], fmtIn.labels) = labels
    /\ \A m \in 1..(k - 1) : LabelSet(fmtOut.entries[m], fmtIn.labels) # labels

\* C26: each stream of a payload carries the label set of its entries,
\* service, level and the optional event overlaid by the static labels; no
\* two streams of the payload carry the same label set; and the streams are
\* in the order in which their label sets first occur in the input.
C26_OneStreamPerLabelSet ==
  fmtOut # <<>> =>
    /\ \A i \in 1..Len(fmtOut.payload) :
         \A j \in 1..Len(fmtOut.map[i].group) :
           StreamLabels(i) = LabelSet(fmtOut.map[i].group[j], fmtIn.labels)
    /\ \A i, j \in 1..Len(fmtOut.payload) :
         i < j => /\ StreamLabels(i) # StreamLabels(j)
                  /\ FirstWith(StreamLabels(i)) < FirstWith(StreamLabels(j))

\* The fields of a JSON text are those of reserved, each with the entry's
\* value unless the metadata has the key, and those of the metadata, each
\* with the metadata's value.
HoldsFields(text, reserved, metadata) ==
  /\ IsJSONObject(text)
  /\ {JSONObject(text)[i][1] : i \in 1..Len(JSONObject(text))}
       = {ToString(reserved[i][1]) : i \in 1..Len(reserved)}
           \cup {ToString(metadata[i][1]) : i \in 1..Len(metadata)}
  /\ \A i \in 1..Len(metadata) :
       HasField(JSONObject(text), ToString(metadata[i][1]),
                ToString(metadata[i][2]))
  /\ \A i \in 1..Len(reserved) :
       HasKey(metadata, reserved[i][1])
         \/ HasField(JSONObject(text), ToString(reserved[i][1]),
                     ToString(reserved[i][2]))

\* C27: the JSONL line of an entry is one JSON object followed by a newline
\* that holds timestamp, level, service, message and every metadata key, a
\* metadata key equal to one of the four taking the metadata's value.  The
\* remote log line holds message and every metadata key, the metadata's
\* message replacing the entry's; the stream's service and level and the
\* value's timestamp are the entry's whatever the metadata holds.
C27_MetadataWinsOverReserved ==
  fmtOut # <<>> =>
    LET e == fmtOut.entry
    IN /\ Len(fmtOut.line) >= 1
       /\ fmtOut.line[Len(fmtOut.line)] = "\n"
       /\ HoldsFields(SubSeq(fmtOut.line, 1, Len(fmtOut.line) - 1),
                      << <<"timestamp", e.timestamp>>, <<"level", e.level>>,
                         <<"service", e.service>>, <<"message", e.message>> >>,
                      e.metadata)
       /\ Len(fmtOut.remote) = 1
       /\ Len(fmtOut.remote[1].values) = 1
       /\ HoldsFields(fmtOut.remote[1].values[1][2],
                      << <<"message", e.message>> >>, e.metadata)
       /\ fmtOut.remote[1].values[1][1] = e.timestamp * 1000000
       /\ HasField(fmtOut.remote[1].stream, "service", e.service)
       /\ HasField(fmtOut.remote[1].stream, "level", e.level)

\* info("msg", {level: "fatal", message: "other"}) has been written: both
\* lines hold the metadata's message, the JSONL line the metadata's level, and
\* the stream the entry's level.
C27_Witness ==
  /\ fmtOut # <<>>
  /\ fmtOut.op = "info"
  /\ HasField(fmtOut.entry.metadata, "message", "other")
  /\ HasField(fmtOut.entry.metadata, "level", "fatal")
  /\ fmtOut.entry.message = "msg"
  /\ HasField(JSONLine(fmtOut.line), ToString("message"), ToString("other"))
  /\ HasField(JSONLine(fmtOut.line), ToString("level"), ToString("fatal"))
  /\ HasField(JSONObject(fmtOut.remote[1].values[1][2]), ToString("message"),
              ToString("other"))
  /\ HasField(fmtOut.remote[1].stream, "level", "info")

\* C28: whatever integer retries is configured, negative values included, a
\* batch is dropped only after at least one delivery attempt was made for it.
C28_DroppedOnlyAfterAttempt ==
  \A i \in 1..Len(sends) :
    sends[i].phase = "dropped" => sends[i].attempt >= 1

\* A call of flush() that found the buffer empty resolves without waiting.
FlushResolvesAtOnce == flushCalls' = flushCalls + 1 /\ flushes' = flushes

\* C29: when flush() of the remote sink resolves, no send of the sink is in
\* progress: a send begun earlier by the size threshold or the timer, waiting
\* for its response or in backoff, has finished.
C29_NoSendInProgressWhenFlushResolves ==
  [][(FlushResolves \/ FlushResolvesAtOnce) =>
       \A i \in 1..Len(sends') : ~InProgress(sends'[i])]_vars

====
